---------------------------- MODULE Spec2Model ----------------------------
(***************************************************************************)
(* The used-car price pipeline of gradientboosting.py as a state machine.  *)
(* One action per stage of the script, in script order:                    *)
(*   impute -> outlier -> encode -> engineer -> mutual_info -> select ->   *)
(*   split -> fit -> predict -> evaluate -> staged -> done                 *)
(* Init is the state after line 17: `data` is a table that left the        *)
(* cleaning lines (500 < price < 80000, the nine columns).                 *)
(*                                                                         *)
(* Numbers.  Floats of the script are integers here.  year and odometer    *)
(* are held in units of 1/FIX from the imputer on (the imputer returns     *)
(* floats; FIX makes every neighbour mean of the modelled tables exact).   *)
(* Prices and predictions are whole price units; a division inside the     *)
(* boosting engine rounds toward minus infinity where the script rounds to *)
(* the nearest double.  Category values are naturals whose order is the    *)
(* sort order of the category strings.                                     *)
(***************************************************************************)
EXTENDS Integers, Sequences, FiniteSets, TLC

VARIABLES
    pc,                 \* the stage that runs next, or "done" / "error"
    err,                \* the stage whose library call raised, "" if none
    input,              \* the table as it left line 17 (kept for a second run)
    data,               \* the script's `data` frame: a sequence of rows
    stage_in,           \* `data` as the stage that ran last received it
    label_encoder,      \* classes_ of the one LabelEncoder object (line 31)
    classes,            \* column -> classes_ right after that column's fit
    wall_clock,         \* the year the system clock shows
    current_year,       \* line 36
    np_random_state,    \* numpy's global, unseeded generator
    importance_dict,    \* line 47
    selected_features,  \* line 51
    perm42,             \* what RandomState(42) yields: n -> test positions
    train_idx, test_idx,\* line 55, as positions in `data`
    gbr_model,          \* line 58-59
    y_pred,             \* line 62
    metrics,            \* what evaluate_model returned and printed (line 75)
    test_errors,        \* line 115
    staged,             \* the vectors staged_predict yielded (line 114)
    y_test,             \* line 55
    prev_run            \* the outputs of the run before this one

vars == << pc, err, input, data, stage_in, label_encoder, classes, wall_clock,
           current_year,
           np_random_state, importance_dict, selected_features, perm42,
           train_idx, test_idx, gbr_model, y_pred, metrics, test_errors,
           staged, y_test, prev_run >>

---------------------------------------------------------------------------
(* Bounds of the model *)

MaxRows == 3          \* rows of a table of the mixed family
MaxFullRows == 4      \* rows of a table of the complete family
MaxOutlierRows == 10  \* rows of a table of the far-odometer family
MaxEvalLen == 3       \* length of the vectors handed to evaluate_model alone

(* Program constants *)

N_NEIGHBORS == 5              \* KNNImputer(n_neighbors=5)
Z_LIMIT == 3                  \* .abs() < 3
MI_N_NEIGHBORS == 3           \* mutual_info_regression's default n_neighbors
MI_THRESHOLD == 10            \* score > 0.01, scores in thousandths
TEST_SIZE_PCT == 10           \* test_size=0.1, in percent
N_ESTIMATORS == 100           \* GradientBoostingRegressor's default
MAX_DEPTH == 3                \* GradientBoostingRegressor's default
LEARNING_RATE_INV == 10       \* learning_rate = 0.1 = 1 / 10

FIX == 3 * 4 * 5
NaN == 0 - 1

numerical_columns == << "year", "odometer" >>
categorical_columns ==
    << "manufacturer", "fuel", "transmission", "drive", "paint_color", "type" >>
feature_columns ==
    << "year", "manufacturer", "fuel", "odometer", "transmission", "drive",
       "paint_color", "type", "car_age", "price_per_km", "odometer_fuel" >>

---------------------------------------------------------------------------
(* Helpers on sequences and sets *)

Range(s) == { s[i] : i \in DOMAIN s }

Abs(x) == IF x < 0 THEN 0 - x ELSE x

RECURSIVE SumSeq(_)
SumSeq(s) == IF s = << >> THEN 0 ELSE s[1] + SumSeq(Tail(s))

RECURSIVE SumSet(_, _)
\* the sum of f[i] over the i of S
SumSet(f, S) ==
    IF S = {} THEN 0
    ELSE LET i == CHOOSE j \in S : TRUE IN f[i] + SumSet(f, S \ {i})

\* the sequence f with its entries evaluated
Eager(f) == f \o << >>

Column(tbl, col) == [ i \in DOMAIN tbl |-> tbl[i][col] ]

Index(tbl) == [ i \in DOMAIN tbl |-> tbl[i].index ]

\* the rows of tbl at the positions where keep holds, in their order
RECURSIVE MaskRows(_, _)
MaskRows(tbl, keep) ==
    IF tbl = << >> THEN << >>
    ELSE (IF keep[1] THEN << tbl[1] >> ELSE << >>)
         \o MaskRows(Tail(tbl), Tail(keep))

RECURSIVE SortedSeq(_)
\* np.unique: the distinct values, ascending
SortedSeq(S) ==
    IF S = {} THEN << >>
    ELSE LET m == CHOOSE x \in S : \A z \in S : x <= z
         IN << m >> \o SortedSeq(S \ {m})

\* the ascending sequence of a set of positions
Ascending(S) == SortedSeq(S)

---------------------------------------------------------------------------
(* The tables the model starts from.  A row carries its pandas index label  *)
(* (`index`), which no stage of the script resets.                          *)

\* category values of one row, one per categorical column
Profile(p) ==
    CASE p = 1 -> [ manufacturer |-> 3, fuel |-> 7, transmission |-> 1,
                    drive |-> 4, paint_color |-> 2, type |-> 5 ]
      [] p = 2 -> [ manufacturer |-> 8, fuel |-> 7, transmission |-> 6,
                    drive |-> 2, paint_color |-> 9, type |-> 5 ]
      [] OTHER -> [ manufacturer |-> 5, fuel |-> 1, transmission |-> 6,
                    drive |-> 9, paint_color |-> 2, type |-> 5 ]

MkRow(price, year, odometer, p) ==
    [ price |-> price, year |-> year, odometer |-> odometer,
      manufacturer |-> Profile(p).manufacturer, fuel |-> Profile(p).fuel,
      transmission |-> Profile(p).transmission, drive |-> Profile(p).drive,
      paint_color |-> Profile(p).paint_color, type |-> Profile(p).type ]

\* row templates: complete rows (1, 2), a missing year (3), a missing odometer (4),
\* and template 1 with a far odometer reading (5)
Template(t) ==
    CASE t = 1 -> MkRow(600, 2000, 0, 1)
      [] t = 2 -> MkRow(660, 2010, 10, 2)
      [] t = 3 -> MkRow(630, NaN, 10, 3)
      [] t = 4 -> MkRow(600, 2000, NaN, 1)
      [] OTHER -> MkRow(600, 2000, 10, 1)

WithIndex(row, i) == [ c \in DOMAIN row \cup {"index"} |->
                         IF c = "index" THEN i ELSE row[c] ]

TableOf(ts) == [ i \in DOMAIN ts |-> WithIndex(Template(ts[i]), i) ]

SeqsUpTo(S, lo, hi) == UNION { [ 1..n -> S ] : n \in lo..hi }

\* every mix of the four templates, up to MaxRows rows (the empty table included)
MixedTables == { TableOf(ts) : ts \in SeqsUpTo(1..4, 0, MaxRows) }

\* complete rows only, enough of them for every stage to run
FullTables ==
    { TableOf(ts) : ts \in SeqsUpTo(1..2, MI_N_NEIGHBORS + 1, MaxFullRows) }

\* equal odometer readings, but possibly for the last row's, which is far off
OutlierTables ==
    { TableOf([ i \in 1..n |-> IF i = n /\ far THEN 5 ELSE 1 ]) :
        n \in 1..MaxOutlierRows, far \in BOOLEAN }

InputTables == MixedTables \cup FullTables \cup OutlierTables

---------------------------------------------------------------------------
(* Imputation Engine: KNNImputer(n_neighbors=5).fit_transform, lines 20-22 *)

Present(X, j, col) == X[j][col] # NaN

\* the columns both rows have a value in
Common(X, i, j) ==
    { c \in Range(numerical_columns) : Present(X, i, c) /\ Present(X, j, c) }

SqDiff(X, i, j) == [ c \in Range(numerical_columns) |->
                       (X[i][c] - X[j][c]) * (X[i][c] - X[j][c]) ]

\* nan_euclidean_distances, squared: the squared differences over the common
\* columns, weighted by (all columns / common columns); NaN without a common one
NanDist(X, i, j) ==
    IF Common(X, i, j) = {} THEN NaN
    ELSE (Len(numerical_columns) * SumSet(SqDiff(X, i, j), Common(X, i, j)))
            \div Cardinality(Common(X, i, j))

Donors(X, col) == { j \in DOMAIN X : Present(X, j, col) }

\* donor a is taken before donor b: smaller distance first, a NaN distance
\* last, equal distances by row position
Before(X, i, a, b) ==
    LET da == NanDist(X, i, a)
        db == NanDist(X, i, b)
    IN  \/ da # NaN /\ db = NaN
        \/ da # NaN /\ db # NaN /\ da < db
        \/ da = db /\ a < b

\* the n_neighbors nearest donors of receiver i for column col
Neighbours(X, i, col) ==
    { j \in Donors(X, col) :
        Cardinality({ a \in Donors(X, col) : Before(X, i, a, j) }) < N_NEIGHBORS }

\* the mean, in units of 1/FIX, of column col over the rows of S
MeanFix(X, col, S) == (FIX * SumSet(Column(X, col), S)) \div Cardinality(S)

\* the value the imputer writes at row i, column col (S nonempty: a donor exists)
ImputedValue(X, i, col) ==
    IF Present(X, i, col) THEN FIX * X[i][col]
    ELSE LET used == { j \in Neighbours(X, i, col) : NanDist(X, i, j) # NaN }
         IN  IF \A j \in Donors(X, col) : NanDist(X, i, j) = NaN
             THEN MeanFix(X, col, Donors(X, col))      \* the column mean
             ELSE MeanFix(X, col, used)

\* fit_transform raises on an empty table; a column with no value at all is
\* dropped from its result, and the assignment of line 22 then raises
ImputeRaises(X) ==
    \/ Len(X) = 0
    \/ \E c \in Range(numerical_columns) : Donors(X, c) = {}

ImputeTable(X) ==
    [ i \in DOMAIN X |->
        [ c \in DOMAIN X[i] |->
            IF c \in Range(numerical_columns) THEN ImputedValue(X, i, c)
            ELSE X[i][c] ] ]

---------------------------------------------------------------------------
(* Outlier Filter: scipy zscore (population standard deviation), lines 24-27 *)

\* n^2 times the population variance of column col
VarTimesN2(X, col) ==
    Len(X) * SumSeq([ i \in DOMAIN X |-> X[i][col] * X[i][col] ])
      - SumSeq(Column(X, col)) * SumSeq(Column(X, col))

\* abs(z) < 3 for row i, z = (x - mean) / std compared in squares after
\* multiplying through by n * std.  A zero std makes z NaN, and NaN < 3 is False.
ZscoreBelowLimit(X, i, col) ==
    LET dev == Len(X) * X[i][col] - SumSeq(Column(X, col))
    IN  /\ VarTimesN2(X, col) > 0
        /\ dev * dev < Z_LIMIT * Z_LIMIT * VarTimesN2(X, col)

OutlierMask(X) == [ i \in DOMAIN X |-> ZscoreBelowLimit(X, i, "odometer") ]

\* a filter that hands the surviving rows back last row first
OutlierFilterReversed(X) ==
    LET kept == MaskRows(X, OutlierMask(X))
    IN  [ i \in DOMAIN kept |-> kept[Len(kept) + 1 - i] ]

OutlierFilter(X) == MaskRows(X, OutlierMask(X))

---------------------------------------------------------------------------
(* Categorical Encoder: one LabelEncoder, fit_transform per column, 29-33 *)

\* a fit that keeps the classes of the columns fitted before
LabelEncoderFitKeeping(old_classes, values) ==
    SortedSeq(Range(old_classes) \cup Range(values))

\* LabelEncoder.fit: classes_ = np.unique(values); what was fitted before is lost
LabelEncoderFit(old_classes, values) == SortedSeq(Range(values))

\* LabelEncoder.transform: the zero-based position of v in classes_
LabelEncoderTransform(classes_, v) ==
    (CHOOSE k \in DOMAIN classes_ : classes_[k] = v) - 1

SetColumn(tbl, col, values) ==
    [ i \in DOMAIN tbl |-> [ tbl[i] EXCEPT ![col] = values[i] ] ]

\* the loop of lines 32-33 from column k on; st = [data, label_encoder, classes]
RECURSIVE EncodeLoop(_, _)
EncodeLoop(k, st) ==
    IF k > Len(categorical_columns) THEN st
    ELSE LET col == categorical_columns[k]
             fitted == LabelEncoderFit(st.label_encoder, Column(st.data, col))
             codes == [ i \in DOMAIN st.data |->
                          LabelEncoderTransform(fitted, st.data[i][col]) ]
         IN  EncodeLoop(k + 1,
                 [ data |-> SetColumn(st.data, col, codes),
                   label_encoder |-> fitted,
                   classes |-> [ st.classes EXCEPT ![col] = fitted ] ])

NoClasses == [ c \in Range(categorical_columns) |-> << >> ]

---------------------------------------------------------------------------
(* Feature Engineer, lines 35-41 *)

Years == 2025 .. 2026      \* the years the clock shows, the first at the first run

AddFeatures(row, year_now) ==
    [ c \in DOMAIN row \cup {"car_age", "price_per_km", "odometer_fuel"} |->
        CASE c = "car_age" -> FIX * year_now - row.year
          [] c = "price_per_km" -> (FIX * FIX * row.price) \div (row.odometer + FIX)
          [] c = "odometer_fuel" -> row.odometer * row.fuel
          [] OTHER -> row[c] ]

Engineered(tbl, year_now) == [ i \in DOMAIN tbl |-> AddFeatures(tbl[i], year_now) ]

---------------------------------------------------------------------------
(* Feature Selector, lines 43-52 *)

\* mutual_info_regression(X, y) is called without random_state: it draws its
\* tie-breaking noise from numpy's global generator.  The estimator itself
\* is not computed: the score of the k-th column takes one of three levels
\* (0, the threshold, twice the threshold), picked by the generator's state.
RngStates == 0 .. 2

MIScore(k, rng) == ((k * rng) % 3) * MI_THRESHOLD

MutualInfoRegression(rng) ==
    [ c \in Range(feature_columns) |->
        MIScore(CHOOSE k \in DOMAIN feature_columns : feature_columns[k] = c, rng) ]

\* kneighbors() of the estimator needs n_neighbors + 1 <= n_samples
MutualInfoRaises(tbl) == Len(tbl) < MI_N_NEIGHBORS + 1

Selected(score) == score > MI_THRESHOLD

RECURSIVE SelectFrom(_, _)
SelectFrom(cols, scores) ==
    IF cols = << >> THEN << >>
    ELSE (IF Selected(scores[cols[1]]) THEN << cols[1] >> ELSE << >>)
         \o SelectFrom(Tail(cols), scores)

SelectedFeatures(scores) == SelectFrom(feature_columns, scores)

---------------------------------------------------------------------------
(* Splitter: train_test_split(X, y, test_size=0.1, random_state=42), 54-55 *)

\* n_test = ceil(test_size * n_samples)
NTest(n) == (TEST_SIZE_PCT * n + 99) \div 100

\* n_train = n_samples - n_test
NTrain(n) == n - NTest(n)

\* "the resulting train set will be empty"
SplitRaises(n) == NTrain(n) = 0

\* the test positions a permutation of 1..n can put first
TestChoices(n) == { S \in SUBSET (1 .. n) : Cardinality(S) = NTest(n) }

\* a split that trains on the first n_train rows whatever the test rows are
TrainOfLeading(n, test) == 1 .. NTrain(n)

\* the positions left for training
TrainOf(n, test) == (1 .. n) \ test

---------------------------------------------------------------------------
(* Boosting Engine: GradientBoostingRegressor(random_state=42), lines 57-62 *)
(* squared-error loss, init = mean, 100 trees of depth 3, learning rate 0.1 *)

\* the mean of f over the positions S, rounded down
MeanOver(f, S) == SumSet(f, S) \div Cardinality(S)

\* feature vector of a row: its values in the selected columns
FeatureVec(row, feats) == Eager([ k \in DOMAIN feats |-> row[feats[k]] ])

\* the candidate splits of node S: feature k, between two values a < b of it
\* that are adjacent among the rows of S
Candidates(X, S) ==
    { c \in { << k, X[i][k], X[j][k] >> : k \in DOMAIN X[CHOOSE i \in S : TRUE],
                                          i \in S, j \in S } :
        /\ c[2] < c[3]
        /\ \A i \in S : ~ (c[2] < X[i][c[1]] /\ X[i][c[1]] < c[3]) }

\* rows of S going left at split c: x <= (a + b) / 2
LeftOf(X, S, c) == { i \in S : 2 * X[i][c[1]] <= c[2] + c[3] }

\* friedman_mse's proxy improvement as a fraction << diff^2, n_left * n_right >>
Proxy(X, r, S, c) ==
    LET L == LeftOf(X, S, c)
        R == S \ L
        diff == Cardinality(R) * SumSet(r, L) - Cardinality(L) * SumSet(r, R)
    IN  << diff * diff, Cardinality(L) * Cardinality(R) >>

\* split c with improvement p is kept over split d with improvement q: a
\* larger improvement, an equal one by feature and threshold order
Preferred(c, p, d, q) ==
    \/ p[1] * q[2] > q[1] * p[2]
    \/ /\ p[1] * q[2] = q[1] * p[2]
       /\ \/ c[1] < d[1]
          \/ c[1] = d[1] /\ c[2] < d[2]

\* the split the tree builder takes at node S
BestSplit(X, r, S) ==
    LET scored == { << c, Proxy(X, r, S, c) >> : c \in Candidates(X, S) }
    IN  (CHOOSE e \in scored :
            \A f \in scored \ {e} : Preferred(e[1], e[2], f[1], f[2]))[1]

RECURSIVE FitTree(_, _, _, _)
\* DecisionTreeRegressor(max_depth=3).fit on the rows S of X with targets r
FitTree(X, r, S, depth) ==
    IF \/ depth >= MAX_DEPTH
       \/ Cardinality(S) < 2
       \/ \A i \in S, j \in S : r[i] = r[j]          \* impurity 0
       \/ Candidates(X, S) = {}
    THEN [ leaf |-> TRUE, value |-> MeanOver(r, S) ]
    ELSE LET c == BestSplit(X, r, S)
             L == LeftOf(X, S, c)
         IN  [ leaf |-> FALSE, feature |-> c[1], low |-> c[2], high |-> c[3],
               left |-> FitTree(X, r, L, depth + 1),
               right |-> FitTree(X, r, S \ L, depth + 1) ]

RECURSIVE TreePredict(_, _)
TreePredict(tree, x) ==
    IF tree.leaf THEN tree.value
    ELSE IF 2 * x[tree.feature] <= tree.low + tree.high
         THEN TreePredict(tree.left, x)
         ELSE TreePredict(tree.right, x)

\* learning_rate * tree.predict(x)
Shrunk(tree, x) == TreePredict(tree, x) \div LEARNING_RATE_INV

RECURSIVE FitStages(_, _, _, _, _)
\* the boosting loop from stage Len(trees) + 1 on; raw = current predictions
\* by row position, of which the training rows S are read
FitStages(X, y, S, raw, trees) ==
    IF Len(trees) >= N_ESTIMATORS THEN trees
    ELSE LET residual == Eager([ i \in DOMAIN X |-> y[i] - raw[i] ])
             tree == FitTree(X, residual, S, 0)
         IN  FitStages(X, y, S,
                       Eager([ i \in DOMAIN X |-> raw[i] + Shrunk(tree, X[i]) ]),
                       Append(trees, tree))

\* gbr_model.fit(X_train, y_train): X holds the feature vectors by position
GradientBoostingFit(X, y, S) ==
    LET init == MeanOver(y, S)
    IN  [ fitted |-> TRUE, init_ |-> init,
          estimators_ |-> FitStages(X, y, S, Eager([ i \in DOMAIN X |-> init ]), << >>) ]

Unfitted == [ fitted |-> FALSE, init_ |-> 0, estimators_ |-> << >> ]

\* zero feature columns: check_array raises inside fit
FitRaises(feats) == feats = << >>

RECURSIVE RawPredict(_, _, _)
\* the init prediction plus the shrunk output of the trees from stage k on
RawPredict(model, x, k) ==
    IF k > Len(model.estimators_) THEN 0
    ELSE Shrunk(model.estimators_[k], x) + RawPredict(model, x, k + 1)

\* gbr_model.predict(X_test)
Predict(model, XT) ==
    Eager([ i \in DOMAIN XT |-> model.init_ + RawPredict(model, XT[i], 1) ])

RECURSIVE StagedFrom(_, _, _, _)
\* staged_predict: add stage k to the running prediction, yield it, go on
StagedFrom(model, XT, raw, k) ==
    IF k > Len(model.estimators_) THEN << >>
    ELSE LET next == Eager([ i \in DOMAIN XT |->
                                raw[i] + Shrunk(model.estimators_[k], XT[i]) ])
         IN  << next >> \o StagedFrom(model, XT, next, k + 1)

\* a staged prediction that yields the running prediction before adding the stage
StagedPredictLagging(model, XT) ==
    << Eager([ i \in DOMAIN XT |-> model.init_ ]) >>
      \o SubSeq(StagedFrom(model, XT, Eager([ i \in DOMAIN XT |-> model.init_ ]), 1),
                1, Len(model.estimators_) - 1)

StagedPredict(model, XT) ==
    StagedFrom(model, XT, Eager([ i \in DOMAIN XT |-> model.init_ ]), 1)

---------------------------------------------------------------------------
(* Evaluator: evaluate_model, lines 64-73.  A metric is a fraction           *)
(* << numerator, denominator >>; what is printed is in hundredths.           *)

AbsErrors(yt, yp) == [ i \in DOMAIN yt |-> Abs(yt[i] - yp[i]) ]

SqErrors(yt, yp) == [ i \in DOMAIN yt |-> (yt[i] - yp[i]) * (yt[i] - yp[i]) ]

mean_absolute_error(yt, yp) == << SumSeq(AbsErrors(yt, yp)), Len(yt) >>

\* a mean squared error that forgets to square
mean_squared_error_unsquared(yt, yp) == << SumSeq(AbsErrors(yt, yp)), Len(yt) >>

mean_squared_error(yt, yp) == << SumSeq(SqErrors(yt, yp)), Len(yt) >>

\* n times the sum of squared deviations of yt from its mean
TotalSqTimesN(yt) ==
    Len(yt) * SumSeq([ i \in DOMAIN yt |-> yt[i] * yt[i] ]) - SumSeq(yt) * SumSeq(yt)

\* r2_score: NaN below two samples; for a constant y_true 1 on a perfect
\* prediction and 0 otherwise; else 1 - SS_res / SS_tot
r2_score(yt, yp) ==
    IF Len(yt) < 2 THEN [ nan |-> TRUE, value |-> << 0, 1 >> ]
    ELSE IF TotalSqTimesN(yt) = 0
         THEN [ nan |-> FALSE,
                value |-> << IF SumSeq(SqErrors(yt, yp)) = 0 THEN 1 ELSE 0, 1 >> ]
         ELSE [ nan |-> FALSE,
                value |-> << TotalSqTimesN(yt) - Len(yt) * SumSeq(SqErrors(yt, yp)),
                             TotalSqTimesN(yt) >> ]

\* f"{x:.2f}" of the fraction q: hundredths, to nearest, a tie to the even one
Format2f(q) ==
    LET h == (100 * q[1]) \div q[2]
        r == (100 * q[1]) % q[2]
    IN  IF 2 * r > q[2] \/ (2 * r = q[2] /\ h % 2 = 1) THEN h + 1 ELSE h

\* check_consistent_length / check_array raise
EvaluateRaises(yt, yp) == Len(yt) # Len(yp) \/ Len(yt) = 0

evaluate_model(yt, yp) ==
    [ mae |-> mean_absolute_error(yt, yp),
      mse |-> mean_squared_error(yt, yp),
      r2 |-> r2_score(yt, yp),
      printed_mae |-> Format2f(mean_absolute_error(yt, yp)),
      printed_mse |-> Format2f(mean_squared_error(yt, yp)) ]

NoMetrics == [ mae |-> << 0, 1 >>, mse |-> << 0, 1 >>,
               r2 |-> [ nan |-> TRUE, value |-> << 0, 1 >> ],
               printed_mae |-> 0, printed_mse |-> 0 ]

---------------------------------------------------------------------------
(* The script as a state machine *)

NoScores == [ c \in Range(feature_columns) |-> 0 ]

NoRun == [ ran |-> FALSE, classes |-> NoClasses, importance_dict |-> NoScores,
           train_idx |-> << >>, test_idx |-> << >>, y_pred |-> << >> ]

\* what a run leaves behind for the comparison with the next one
Outputs == [ ran |-> TRUE, classes |-> classes, importance_dict |-> importance_dict,
             train_idx |-> train_idx, test_idx |-> test_idx, y_pred |-> y_pred ]

\* the state of a fresh interpreter at line 18, on table tbl
Start(tbl) ==
    /\ pc = "impute"
    /\ err = ""
    /\ data = tbl
    /\ stage_in = tbl
    /\ label_encoder = << >>
    /\ classes = NoClasses
    /\ current_year = 0
    /\ importance_dict = NoScores
    /\ selected_features = << >>
    /\ train_idx = << >>
    /\ test_idx = << >>
    /\ gbr_model = Unfitted
    /\ y_pred = << >>
    /\ y_test = << >>
    /\ metrics = NoMetrics
    /\ test_errors = << >>
    /\ staged = << >>

Init ==
    /\ input \in InputTables
    /\ Start(input)
    /\ np_random_state \in RngStates
    /\ wall_clock = CHOOSE yr \in Years : \A other \in Years : yr <= other
    /\ perm42 = {}
    /\ prev_run = NoRun

\* X and y of line 44-45 and 52: feature vectors and prices by position
X == Eager([ i \in DOMAIN data |-> FeatureVec(data[i], selected_features) ])
y == Eager(Column(data, "price"))
X_test == Eager([ k \in DOMAIN test_idx |-> FeatureVec(data[test_idx[k]], selected_features) ])

Raise(stage) ==
    /\ pc' = "error"
    /\ err' = stage

\* lines 19-22
Impute ==
    /\ pc = "impute"
    /\ stage_in' = data
    /\ IF ImputeRaises(data)
       THEN Raise("impute") /\ UNCHANGED data
       ELSE /\ data' = ImputeTable(data)
            /\ pc' = "outlier"
            /\ UNCHANGED err
    /\ UNCHANGED << input, label_encoder, classes, wall_clock, current_year, np_random_state,
                    importance_dict, selected_features, perm42, train_idx,
                    test_idx, gbr_model, y_pred, metrics, test_errors, staged,
                    y_test, prev_run >>

\* lines 24-27
Outlier ==
    /\ pc = "outlier"
    /\ stage_in' = data
    /\ data' = OutlierFilter(data)
    /\ pc' = "encode"
    /\ UNCHANGED << err, input, label_encoder, classes, wall_clock, current_year,
                    np_random_state, importance_dict, selected_features, perm42,
                    train_idx, test_idx, gbr_model, y_pred, metrics, test_errors,
                    staged, y_test, prev_run >>

\* lines 29-33
Encode ==
    /\ pc = "encode"
    /\ stage_in' = data
    /\ LET st == EncodeLoop(1, [ data |-> data, label_encoder |-> label_encoder,
                                 classes |-> classes ])
       IN  /\ data' = st.data
           /\ label_encoder' = st.label_encoder
           /\ classes' = st.classes
    /\ pc' = "engineer"
    /\ UNCHANGED << err, input, wall_clock, current_year, np_random_state, importance_dict,
                    selected_features, perm42, train_idx, test_idx, gbr_model,
                    y_pred, metrics, test_errors, staged, y_test, prev_run >>

\* lines 35-41: datetime.now().year reads the clock
Engineer ==
    /\ pc = "engineer"
    /\ stage_in' = data
    /\ current_year' = wall_clock
    /\ data' = Engineered(data, wall_clock)
    /\ pc' = "select"
    /\ UNCHANGED << err, input, label_encoder, classes, wall_clock, np_random_state,
                    importance_dict, selected_features, perm42, train_idx,
                    test_idx, gbr_model, y_pred, metrics, test_errors, staged,
                    y_test, prev_run >>

\* lines 43-52
FeatureSelect ==
    /\ pc = "select"
    /\ IF MutualInfoRaises(data)
       THEN Raise("select") /\ UNCHANGED << importance_dict, selected_features >>
       ELSE /\ importance_dict' = MutualInfoRegression(np_random_state)
            /\ selected_features' = SelectedFeatures(importance_dict')
            /\ pc' = "split"
            /\ UNCHANGED err
    /\ UNCHANGED << input, data, stage_in, label_encoder, classes, wall_clock, current_year,
                    np_random_state, perm42, train_idx, test_idx, gbr_model,
                    y_pred, metrics, test_errors, staged, y_test, prev_run >>

\* what RandomState(42) makes of n rows: the same on every call, unknown here
SeededTestSets(n) ==
    IF \E e \in perm42 : e[1] = n
    THEN { e[2] : e \in { d \in perm42 : d[1] = n } }
    ELSE TestChoices(n)

\* lines 54-55
Split ==
    /\ pc = "split"
    /\ IF SplitRaises(Len(data))
       THEN Raise("split") /\ UNCHANGED << perm42, train_idx, test_idx, y_test >>
       ELSE \E test \in SeededTestSets(Len(data)) :
              /\ perm42' = perm42 \cup { << Len(data), test >> }
              /\ test_idx' = Ascending(test)
              /\ train_idx' = Ascending(TrainOf(Len(data), test))
              /\ y_test' = [ k \in 1 .. Cardinality(test) |-> y[Ascending(test)[k]] ]
              /\ pc' = "fit"
              /\ UNCHANGED err
    /\ UNCHANGED << input, data, stage_in, label_encoder, classes, wall_clock, current_year,
                    np_random_state, importance_dict, selected_features,
                    gbr_model, y_pred, metrics, test_errors, staged, prev_run >>

\* lines 57-59
Fit ==
    /\ pc = "fit"
    /\ IF FitRaises(selected_features)
       THEN Raise("fit") /\ UNCHANGED gbr_model
       ELSE /\ gbr_model' = GradientBoostingFit(X, y, Range(train_idx))
            /\ pc' = "predict"
            /\ UNCHANGED err
    /\ UNCHANGED << input, data, stage_in, label_encoder, classes, wall_clock, current_year,
                    np_random_state, importance_dict, selected_features, perm42,
                    train_idx, test_idx, y_pred, metrics, test_errors, staged,
                    y_test, prev_run >>

\* lines 61-62
PredictTest ==
    /\ pc = "predict"
    /\ y_pred' = Predict(gbr_model, X_test)
    /\ pc' = "evaluate"
    /\ UNCHANGED << err, input, data, stage_in, label_encoder, classes,
                    wall_clock, current_year, np_random_state, importance_dict,
                    selected_features, perm42, train_idx, test_idx, gbr_model,
                    metrics, test_errors, staged, y_test, prev_run >>

\* line 75 (the plots of lines 77-112 read, and change nothing)
Evaluate ==
    /\ pc = "evaluate"
    /\ IF EvaluateRaises(y_test, y_pred)
       THEN Raise("evaluate") /\ UNCHANGED metrics
       ELSE /\ metrics' = evaluate_model(y_test, y_pred)
            /\ pc' = "staged"
            /\ UNCHANGED err
    /\ UNCHANGED << input, data, stage_in, label_encoder, classes, wall_clock, current_year,
                    np_random_state, importance_dict, selected_features, perm42,
                    train_idx, test_idx, gbr_model, y_pred, test_errors, staged,
                    y_test, prev_run >>

\* lines 114-115
StagedErrors ==
    /\ pc = "staged"
    /\ gbr_model.fitted
    /\ staged' = StagedPredict(gbr_model, X_test)
    /\ test_errors' = [ k \in DOMAIN staged' |-> mean_squared_error(y_test, staged'[k]) ]
    /\ pc' = "done"
    /\ UNCHANGED << err, input, data, stage_in, label_encoder, classes,
                    wall_clock, current_year, np_random_state, importance_dict,
                    selected_features, perm42, train_idx, test_idx, gbr_model,
                    y_pred, metrics, y_test, prev_run >>

\* the script is started again on the same table, then or a year later: a
\* fresh interpreter, whose global generator is seeded from the operating
\* system once more
Rerun ==
    /\ pc = "done"
    /\ UNCHANGED << input, perm42 >>
    /\ prev_run' = Outputs
    /\ np_random_state' \in RngStates
    /\ wall_clock' \in { yr \in Years : yr >= wall_clock }
    /\ pc' = "impute"
    /\ err' = ""
    /\ data' = input
    /\ stage_in' = input
    /\ label_encoder' = << >>
    /\ classes' = NoClasses
    /\ current_year' = 0
    /\ importance_dict' = NoScores
    /\ selected_features' = << >>
    /\ train_idx' = << >>
    /\ test_idx' = << >>
    /\ gbr_model' = Unfitted
    /\ y_pred' = << >>
    /\ y_test' = << >>
    /\ metrics' = NoMetrics
    /\ test_errors' = << >>
    /\ staged' = << >>

Next ==
    \/ Impute
    \/ Outlier
    \/ Encode
    \/ Engineer
    \/ FeatureSelect
    \/ Split
    \/ Fit
    \/ PredictTest
    \/ Evaluate
    \/ StagedErrors

\* one run of the script
Spec == Init /\ [][Next]_vars

NextOrRerun ==
    \/ Next
    \/ Rerun

\* runs of the script on the same table, one after the other
SpecRerun == Init /\ [][NextOrRerun]_vars

---------------------------------------------------------------------------
(* evaluate_model on its own: the two vectors are drawn from small sets *)

EvalTruths == { 10, 20, 30 }
EvalPredictions == { 12, 18, 33 }

InitEval ==
    /\ pc = "evaluate"
    /\ y_test \in SeqsUpTo(EvalTruths, 0, MaxEvalLen)
    /\ y_pred \in SeqsUpTo(EvalPredictions, 0, MaxEvalLen)
    /\ err = ""
    /\ input = << >>
    /\ data = << >>
    /\ stage_in = << >>
    /\ label_encoder = << >>
    /\ classes = NoClasses
    /\ wall_clock = 0
    /\ current_year = 0
    /\ importance_dict = NoScores
    /\ selected_features = << >>
    /\ train_idx = << >>
    /\ test_idx = << >>
    /\ gbr_model = Unfitted
    /\ metrics = NoMetrics
    /\ test_errors = << >>
    /\ staged = << >>
    /\ np_random_state = 0
    /\ perm42 = {}
    /\ prev_run = NoRun

SpecEval == InitEval /\ [][Evaluate]_vars

---------------------------------------------------------------------------
(* Properties *)

AfterSelect == { "split", "fit", "predict", "evaluate", "staged", "done" }
AfterSplit == { "fit", "predict", "evaluate", "staged", "done" }

\* C1 (row alignment): the imputer, the encoder and the feature engineer hand
\* on the rows they received, same count and same order; the outlier filter
\* hands on an order-preserving sub-sequence of the rows it received.
RowAlignment ==
    /\ pc \in { "outlier", "engineer", "select" } => Index(data) = Index(stage_in)
    /\ pc = "encode" =>
          \E keep \in [ DOMAIN stage_in -> BOOLEAN ] : data = MaskRows(stage_in, keep)

\* the outlier filter has dropped some rows and kept others
RowsDropped ==
    /\ pc = "encode"
    /\ Len(data) > 1
    /\ Len(data) < Len(stage_in)

\* C2 (split completeness): train and test are disjoint, together they are
\* all the rows, and the test count is within one row of a tenth of the rows.
SplitCompleteness ==
    (pc \in AfterSplit \/ (pc = "error" /\ err = "fit")) =>
        /\ Range(train_idx) \cap Range(test_idx) = {}
        /\ Range(train_idx) \cup Range(test_idx) = DOMAIN data
        /\ Cardinality(Range(train_idx)) = Len(train_idx)
        /\ Cardinality(Range(test_idx)) = Len(test_idx)
        /\ Len(train_idx) + Len(test_idx) = Len(data)
        /\ Abs(100 * Len(test_idx) - TEST_SIZE_PCT * Len(data)) < 100

\* a split whose test count had to be rounded, the first test row not the last row
SplitRounded ==
    /\ pc = "fit"
    /\ 100 * Len(test_idx) # TEST_SIZE_PCT * Len(data)
    /\ test_idx[1] < Len(data)
    /\ Len(train_idx) > Len(test_idx)

\* C3 (encoding bijection): in each categorical column the codes are exactly
\* 0 .. n_distinct-1, given to the column's own distinct values in ascending
\* order, and classes_ of the column lists these values by code.
EncodingBijection ==
    pc = "engineer" =>
        \A col \in Range(categorical_columns) :
            LET before == Column(stage_in, col)
                after == Column(data, col)
            IN  /\ Range(after) = 0 .. (Cardinality(Range(before)) - 1)
                /\ \A i \in DOMAIN data, j \in DOMAIN data :
                      (before[i] < before[j]) <=> (after[i] < after[j])
                /\ Len(classes[col]) = Cardinality(Range(before))
                /\ \A i \in DOMAIN data : classes[col][after[i] + 1] = before[i]

\* columns with three, two and one distinct values have been encoded together
EncodedUnevenColumns ==
    /\ pc = "engineer"
    /\ Cardinality(Range(Column(stage_in, "manufacturer"))) = 3
    /\ Cardinality(Range(Column(stage_in, "fuel"))) = 2
    /\ Cardinality(Range(Column(stage_in, "type"))) = 1

\* C4 (degenerate selection): once the scores are in and none is above the
\* threshold, the run has stopped with an error raised by the selector, no
\* split made and no model fitted.
EmptySelectionHaltsAtSelector ==
    ( /\ selected_features = << >>
      /\ pc \in AfterSelect \/ (pc = "error" /\ err \in { "split", "fit", "evaluate" }) )
    => ( /\ pc = "error"
         /\ err = "select"
         /\ train_idx = << >>
         /\ test_idx = << >>
         /\ ~ gbr_model.fitted )

\* C5 (outlier boundary): a row whose standardized odometer score is exactly
\* 3 in magnitude is among the rows the outlier filter hands on.
BoundaryScoreRetained ==
    pc = "encode" =>
        \A i \in DOMAIN stage_in :
            LET dev == Len(stage_in) * stage_in[i].odometer
                         - SumSeq(Column(stage_in, "odometer"))
            IN  ( /\ VarTimesN2(stage_in, "odometer") > 0
                  /\ dev * dev = Z_LIMIT * Z_LIMIT * VarTimesN2(stage_in, "odometer") )
                => stage_in[i] \in Range(data)

\* C6 (zero deviation): when all odometer readings are equal the outlier
\* filter hands on the table it received.
ZeroDeviationKeepsAll ==
    (pc = "encode" /\ VarTimesN2(stage_in, "odometer") = 0) => data = stage_in

\* C8 (idempotence): a second run on the same table reproduces the encoding
\* table, the importance scores, the split and the predictions of the first.
RerunIdentical ==
    prev_run.ran =>
        /\ pc \in AfterSelect \cup { "select" } => classes = prev_run.classes
        /\ pc \in AfterSelect => importance_dict = prev_run.importance_dict
        /\ pc \in AfterSplit =>
              train_idx = prev_run.train_idx /\ test_idx = prev_run.test_idx
        /\ pc \in { "evaluate", "staged", "done" } => y_pred = prev_run.y_pred

\* C9 (evaluator, as stated): for y_test = [10, 20, 30] and y_pred =
\* [12, 18, 33] the evaluator prints MAE 2.33 and MSE 7.67; MAE is 7/3, and
\* R2 is 1 - 17/200.
EvaluatorExampleAsStated ==
    (pc = "staged" /\ y_test = << 10, 20, 30 >> /\ y_pred = << 12, 18, 33 >>) =>
        /\ metrics.printed_mae = 233
        /\ metrics.printed_mse = 767
        /\ 3 * metrics.mae[1] = 7 * metrics.mae[2]
        /\ ~ metrics.r2.nan
        /\ 200 * metrics.r2.value[1] = 183 * metrics.r2.value[2]

\* C9 (evaluator, amended): for y_test = [10, 20, 30] and y_pred =
\* [12, 18, 33] the evaluator prints MAE 2.33 and MSE 5.67; MAE is 7/3, MSE
\* is 17/3, and R2 is 1 - 17/200.
EvaluatorExample ==
    (pc = "staged" /\ y_test = << 10, 20, 30 >> /\ y_pred = << 12, 18, 33 >>) =>
        /\ metrics.printed_mae = 233
        /\ metrics.printed_mse = 567
        /\ 3 * metrics.mae[1] = 7 * metrics.mae[2]
        /\ 3 * metrics.mse[1] = 17 * metrics.mse[2]
        /\ ~ metrics.r2.nan
        /\ 200 * metrics.r2.value[1] = 183 * metrics.r2.value[2]

\* the evaluator has returned on the example vectors
EvaluatedExample ==
    /\ pc = "staged"
    /\ err = ""
    /\ y_test = << 10, 20, 30 >>
    /\ y_pred = << 12, 18, 33 >>

\* C10 (staged predictions): the fitted ensemble has N_ESTIMATORS trees and
\* starts from the training-target mean; the staged sequence and the staged
\* error list have N_ESTIMATORS entries; the first staged entry is the initial
\* prediction plus the first shrunk tree, each later entry adds the next
\* shrunk tree to the entry before it, and the last entry is the prediction.
StagedSequence ==
    pc = "done" =>
        /\ Len(gbr_model.estimators_) = N_ESTIMATORS
        /\ gbr_model.init_ =
              SumSeq([ k \in DOMAIN train_idx |-> y[train_idx[k]] ]) \div Len(train_idx)
        /\ Len(staged) = N_ESTIMATORS
        /\ Len(test_errors) = N_ESTIMATORS
        /\ \A k \in 1 .. N_ESTIMATORS : \A i \in DOMAIN X_test :
              staged[k][i] =
                 (IF k = 1 THEN gbr_model.init_ ELSE staged[k - 1][i])
                   + (TreePredict(gbr_model.estimators_[k], X_test[i])
                        \div LEARNING_RATE_INV)
        /\ staged[N_ESTIMATORS] = y_pred

\* a run has ended whose ensemble holds a tree that splits and whose staged
\* predictions moved
StagedMoved ==
    /\ pc = "done"
    /\ \E k \in DOMAIN gbr_model.estimators_ : ~ gbr_model.estimators_[k].leaf
    /\ staged[1] # staged[N_ESTIMATORS]

=============================================================================
